---- MODULE Spec2Model ----
(***************************************************************************)
(* State store of oneJS core: write/read/add/update/remove, the provider   *)
(* adapters (firestore, indexedDB, localStorage, AsyncStorage), path        *)
(* placeholders and the state history (saveState, goToState, nextState,     *)
(* previousState).                                                          *)
(***************************************************************************)
EXTENDS Integers, Sequences, FiniteSets, TLC

VARIABLES
    cfg,            \* the configuration object handed to setupState
    os,             \* OSSPECIFICS.os
    value,          \* ONEJS.currentState[stateId].value
    heap,           \* the arrays and objects the values refer to
    stateHistory,   \* ONEJS.stateHistory
    stateHistoryPosition, \* ONEJS.stateHistoryPosition
    idbOpen,        \* ONEJS.idb holds an open database
    listeners,      \* registered '<id>stateChange' listeners
    pend,           \* provider I/O in flight
    trace,          \* what the last handler did, in order
    call,           \* the last handler that ran, with its arguments
    snap,           \* history variable: the store right after each record
    fuel,           \* calls the application may still issue
    resolved,       \* the last readPathWithState(path): its argument and result
    schema,         \* what outlives the page: the localStorage items of the
                    \* indexedDB set-up and the version of the database
    remote          \* the backend: the document stored at 'events/<n>', by n

vars == <<cfg, os, value, heap, stateHistory, stateHistoryPosition, idbOpen,
          listeners, pend, trace, call, snap, fuel, resolved, schema, remote>>

-----------------------------------------------------------------------------
(* Bounds *)

MaxAddr == 16        \* heap cells available to live arrays and objects
MaxFuel == 5        \* application calls in a run of Spec
MaxCalls == 2       \* application calls in a run of SpecIO
MaxPend == 4        \* provider calls in flight at once
Extra == 5          \* updates beyond stateHistorySize in a run of SpecCap
MaxNav == 2          \* navigation calls in a run of SpecCap

(* Program constants *)

stateHistorySize == 10

-----------------------------------------------------------------------------
(* JavaScript values.  Arrays and objects live in the heap and are compared *)
(* by reference; an element handed to add or updateArray is an object with  *)
(* an id field (0: no id) and a payload.                                    *)

Undef == [t |-> "undef", n |-> 0, id |-> 0]
Null == [t |-> "null", n |-> 0, id |-> 0]
NaNVal == [t |-> "nan", n |-> 0, id |-> 0]
EmptyStr == [t |-> "str", n |-> 0, id |-> 0]
Num(n) == [t |-> "num", n |-> n, id |-> 0]
Ref(a) == [t |-> "ref", n |-> a, id |-> 0]
Elem(i, d) == [t |-> "elem", n |-> d, id |-> i]

Addr == 1..MaxAddr
FreeCell == [k |-> "free", els |-> <<>>]
ArrCell(els) == [k |-> "arr", els |-> els]
ObjCell == [k |-> "obj", els |-> <<>>]

IsRef(x) == x.t = "ref"
IsScalar(x) == x.t \in {"undef", "null", "nan", "str", "num"}

StrictNever(x, y) == FALSE
\* x === y
StrictEq(x, y) == x = y /\ x.t # "nan"
\* x != null
NotNullish(x) == x.t \notin {"undef", "null"}
\* !!x
Truthy(x) == x.t \in {"ref", "elem"} \/ (x.t = "num" /\ x.n # 0)

IsArr(h, x) == IsRef(x) /\ h[x.n].k = "arr"

-----------------------------------------------------------------------------
(* Paths.  A path is its '/'-split: a sequence of segments, each a literal  *)
(* ("lit"), a literal holding an '@' ("at"), an empty string ("empty") or a *)
(* placeholder '<id>' ("ph").                                               *)

Lit(name) == [k |-> "lit", id |-> name]
At(name) == [k |-> "at", id |-> name]
Ph(stateId) == [k |-> "ph", id |-> stateId]
EmptySeg == [k |-> "empty", id |-> ""]
NoPath == <<[k |-> "undefined", id |-> ""]>>     \* the JavaScript undefined

NumStr(n) == IF n \in 0..9 THEN <<"0", "1", "2", "3", "4", "5", "6", "7", "8", "9">>[n + 1] ELSE "n"

\* value.toString(), as one path segment
ToStringSeg(h, x) ==
    CASE x.t = "num" -> Lit(NumStr(x.n))
      [] x.t = "nan" -> Lit("NaN")
      [] x.t = "str" -> EmptySeg
      [] x.t = "elem" -> Lit("[object Object]")
      [] x.t = "ref" -> IF h[x.n].k = "arr" /\ h[x.n].els = <<>> THEN EmptySeg
                        ELSE Lit("[object Object]")
      [] OTHER -> Lit("undefined")

HasPh(path) == \E i \in 1..Len(path) : path[i].k = "ph"
HasAt(path) == \E i \in 1..Len(path) : path[i].k = "at"
FirstPh(path) == CHOOSE i \in 1..Len(path) : path[i].k = "ph" /\ \A j \in 1..(i - 1) : path[j].k # "ph"

\* the stateId a path embeds, "" for none
readStateId(path) == IF HasPh(path) THEN path[FirstPh(path)].id ELSE ""

\* read(stateId)
read(val, stateId) == IF stateId \in DOMAIN val THEN val[stateId] ELSE Undef

readPathWithStateTruthy(val, h, path) ==
    IF HasPh(path)
    THEN LET stateId == path[FirstPh(path)].id
         IN  IF Truthy(read(val, stateId))
             THEN [path EXCEPT ![FirstPh(path)] = ToStringSeg(h, read(val, stateId))]
             ELSE NoPath
    ELSE path

\* readPathWithState(path): the first '<stateId>' of the path is replaced
readPathWithState(val, h, path) ==
    IF HasPh(path)
    THEN LET stateId == path[FirstPh(path)].id
         IN  IF NotNullish(read(val, stateId))
             THEN [path EXCEPT ![FirstPh(path)] = ToStringSeg(h, read(val, stateId))]
             ELSE NoPath
    ELSE path

\* path.split('/').filter(Boolean)
NonEmptySegs(path) == SelectSeq(path, LAMBDA s : s.k # "empty")

-----------------------------------------------------------------------------
(* Configuration, as setupState reads it *)

NoProv == [kind |-> "none", path |-> <<EmptySeg>>]
Prov(kind, path) == [kind |-> kind, path |-> path]
Var(dflt, source, storage, onChange) ==
    [dflt |-> dflt, source |-> source, storage |-> storage, onChange |-> onChange]

Ids == DOMAIN cfg

\* ONEJS.currentState[stateId].storage
storageOf(stateId) ==
    LET st == cfg[stateId].storage
    IN  CASE st.kind = "firestore" -> "firestoreWrite"
          [] st.kind = "indexedDB" -> "indexedDBWrite"
          [] st.kind = "local" /\ os = "web" -> "localStorageWrite"
          [] st.kind = "local" /\ os \in {"ios", "android"} -> "nativeStorageWrite"
          [] st.kind = "function" -> "function"
          [] OTHER -> "none"

\* ONEJS.currentState[stateId].removal
removalOf(stateId) ==
    LET st == cfg[stateId].storage
    IN  CASE st.kind = "firestore" -> "firestoreRemove"
          [] st.kind = "indexedDB" -> "indexedDBRemove"
          [] st.kind = "local" /\ os = "web" -> "localStorageRemove"
          [] st.kind = "local" /\ os \in {"ios", "android"} -> "nativeStorageRemove"
          [] OTHER -> "none"

\* ONEJS.currentState[stateId].source
sourceOf(stateId) ==
    LET so == cfg[stateId].source
    IN  CASE so.kind = "firestore" /\ readStateId(so.path) # "" -> "firestoreRead"
          [] so.kind = "indexedDB" -> "indexedDBRead"
          [] so.kind = "function" -> "function"
          [] OTHER -> "none"

\* ONEJS.currentState[stateId].alert
alertOf(stateId) ==
    \E d \in Ids : /\ cfg[d].source.kind \in {"firestore", "indexedDB"}
                   /\ readStateId(cfg[d].source.path) = stateId

\* the context label a storage adapter ignores
LabelOf(adapter) ==
    CASE adapter = "firestoreWrite" -> "firestore"
      [] adapter = "indexedDBWrite" -> "indexedDB"
      [] adapter = "localStorageWrite" -> "localStorage"
      [] adapter = "nativeStorageWrite" -> "AsyncStorage"
      [] OTHER -> "-"

-----------------------------------------------------------------------------
(* The store, as one record the handlers transform:                         *)
(*   value, heap, hist (stateHistory), pos (stateHistoryPosition), snap,    *)
(*   pend, trace, thrown (an exception is leaving the handler),             *)
(*   oom (the handler needs more heap cells than MaxAddr).                  *)

NaN == 0 - 1000   \* the number NaN (parseInt of a string without digits)

Ev(e, v) == [e |-> e, v |-> v]
Emit(S, e, v) == [S EXCEPT !.trace = Append(@, Ev(e, v))]
\* a handler that returns where the code throws
ThrowNot(S, v) == S
\* an exception leaves the handler that runs
Throw(S, v) == [Emit(S, "throw", v) EXCEPT !.thrown = TRUE]

\* sequencing: the steps F take the store that the steps before them left
Then(S, F(_)) == CHOOSE R \in {F(T) : T \in {S}} : TRUE

Io(k, be, v, path) == [k |-> k, be |-> be, v |-> v, path |-> path]
Start(S, k, be, v, path) ==
    [Emit(S, k, v) EXCEPT !.pend = Append(@, Io(k, be, v, path))]

RefsOfVal(x) == IF IsRef(x) THEN {x.n} ELSE {}
RefsOfMap(val) == UNION {RefsOfVal(val[v]) : v \in DOMAIN val}
Live(S) ==
    RefsOfMap(S.value)
    \cup UNION {RefsOfVal(S.hist[i].oldValue) \cup RefsOfVal(S.hist[i].newValue) : i \in 1..Len(S.hist)}
    \cup UNION {RefsOfMap(S.snap[i]) : i \in 1..Len(S.snap)}

CanAlloc(S) == Addr \ Live(S) # {}
Least(free) == CHOOSE a \in free : \A b \in free : a <= b
NewAddr(S) == CHOOSE a \in {Least(free) : free \in {Addr \ Live(S)}} : TRUE
Keep(h, live) == [a \in Addr |-> IF a \in live THEN h[a] ELSE FreeCell]

-----------------------------------------------------------------------------
(* State history *)

Rec(stateId, oldValue, newValue, action, documentId) ==
    [stateId |-> stateId, oldValue |-> oldValue, newValue |-> newValue,
     action |-> action, documentId |-> documentId]

SpliceNothing(seq, n) == seq
\* array.splice(0, n)
SpliceFront(seq, n) == SubSeq(seq, n + 1, Len(seq))
PopNever(seq, size) == seq
\* array.pop() once the array is longer than size
PopOver(seq, size) == IF Len(seq) > size THEN SubSeq(seq, 1, Len(seq) - 1) ELSE seq

saveState(S, stateId, oldValue, newValue, context, action, documentId) ==
    IF context = "stateHistory" THEN S
    ELSE LET cut == IF S.pos # NaN /\ S.pos > 0 THEN S.pos ELSE 0
             pos1 == IF S.pos # NaN /\ S.pos > 0 THEN 0 ELSE S.pos
             rec == Rec(stateId, oldValue, newValue, action, documentId)
         IN  [Emit(S, "saveState", stateId) EXCEPT
                 !.hist = PopOver(<<rec>> \o SpliceFront(S.hist, cut), stateHistorySize),
                 !.snap = PopOver(<<S.value>> \o SpliceFront(S.snap, cut), stateHistorySize),
                 !.pos = pos1]

-----------------------------------------------------------------------------
(* Provider adapters.  Each takes the store record and returns it with the  *)
(* I/O it started appended to pend and its steps appended to trace.  An     *)
(* async adapter never throws into its caller: an exception in its body     *)
(* rejects the promise it returned ("reject").                              *)

DocSeg(documentId) == Lit(NumStr(documentId))
\* documentId != null ? readPathWithState(path).concat('/', documentId.toString()) : readPathWithState(path)
FinalPath(rp, documentId) == IF documentId # 0 THEN Append(rp, DocSeg(documentId)) ELSE rp

\* strict-mode assignment data.id = documentId
CanSetId(data) == data.t \in {"ref", "elem"}

\* firestoreWrite without its first line
firestoreWriteBack(S, stateId, path, data, context, documentId) ==
    IF path = <<EmptySeg>> THEN S
    ELSE LET rp == readPathWithState(S.value, S.heap, path)
             finalPath == FinalPath(rp, documentId)
         IN  IF rp = NoPath THEN Emit(S, "reject", stateId)
             ELSE IF Len(finalPath) % 2 = 0 THEN Start(S, "setDoc", "firestore", stateId, finalPath)
             ELSE Start(S, "addDoc", "firestore", stateId, finalPath)

firestoreWrite(S, stateId, path, data, context, documentId) ==
    IF context = "firestore" THEN S
    ELSE IF path = <<EmptySeg>> THEN S
    ELSE LET rp == readPathWithState(S.value, S.heap, path)
             finalPath == FinalPath(rp, documentId)
         IN  IF rp = NoPath THEN Emit(S, "reject", stateId)
             ELSE IF Len(finalPath) % 2 = 0 THEN Start(S, "setDoc", "firestore", stateId, finalPath)
             ELSE Start(S, "addDoc", "firestore", stateId, finalPath)

firestoreRemove(S, stateId, path, documentId) ==
    IF path = <<EmptySeg>> THEN S
    ELSE LET rp == readPathWithState(S.value, S.heap, path)
             finalPath == FinalPath(rp, documentId)
         IN  IF rp = NoPath THEN Emit(S, "reject", stateId)
             ELSE IF Len(finalPath) % 2 = 0 THEN Start(S, "deleteDoc", "firestore", stateId, finalPath)
             ELSE Start(S, "deleteAll", "firestore", stateId, rp)

firestoreGetDataOnce(S, stateId, path) ==
    IF ~Truthy(read(S.value, readStateId(path))) THEN S
    ELSE LET rp == readPathWithState(S.value, S.heap, path)
         IN  IF Len(path) % 2 = 0 THEN Start(S, "getDoc", "firestore", stateId, rp)
             ELSE Start(S, "getDocs", "firestore", stateId, rp)

\* idbRequest with the transaction outside the try
idbRequestThrow(S, stateId, k, segs) ==
    IF ~S.idbOpen \/ Len(segs) = 0 THEN Throw(S, stateId)
    ELSE Start(S, k, "indexedDB", stateId, segs)

\* the transaction and request of the indexedDB adapters, inside their try
idbRequest(S, stateId, k, segs) ==
    IF ~S.idbOpen \/ Len(segs) = 0 THEN Emit(S, "error", stateId)
    ELSE Start(S, k, "indexedDB", stateId, segs)

indexedDBWrite(S, stateId, path, data, context, documentId) ==
    IF context = "indexedDB" THEN S
    ELSE IF path = <<EmptySeg>> THEN S
    ELSE LET rp == readPathWithState(S.value, S.heap, path)
             segs0 == NonEmptySegs(rp)
             segs == IF documentId = 0 THEN segs0
                     ELSE IF Len(segs0) = 0 THEN <<>>
                     ELSE <<segs0[1], DocSeg(documentId)>> \o SubSeq(segs0, 3, Len(segs0))
         IN  IF rp = NoPath THEN Throw(S, stateId)
             ELSE IF documentId # 0 /\ ~CanSetId(data) THEN Throw(S, stateId)
             ELSE idbRequest(S, stateId, IF Len(segs) > 1 THEN "put" ELSE "add", segs)

indexedDBRemove(S, stateId, path, documentId) ==
    IF path = <<EmptySeg>> THEN S
    ELSE LET rp == readPathWithState(S.value, S.heap, path)
             segs0 == NonEmptySegs(rp)
             segs == IF documentId = 0 THEN segs0
                     ELSE IF Len(segs0) = 0 THEN <<>>
                     ELSE <<segs0[1], DocSeg(documentId)>> \o SubSeq(segs0, 3, Len(segs0))
         IN  IF rp = NoPath THEN Throw(S, stateId)
             ELSE idbRequest(S, stateId, IF Len(segs) > 1 THEN "delete" ELSE "clear", segs)

\* the read both the listener and the body of indexedDBRead issue
idbGet(S, stateId, rp) ==
    LET segs == NonEmptySegs(rp)
    IN  idbRequest(S, stateId, IF Len(segs) > 1 THEN "get" ELSE "getAll", segs)

indexedDBRead(S, stateId, path, context) ==
    IF context = "indexedDB" THEN S
    ELSE IF path = <<EmptySeg>> THEN S
    ELSE LET rp == readPathWithState(S.value, S.heap, path)
         IN  IF rp = NoPath THEN Throw(S, stateId) ELSE idbGet(S, stateId, rp)

firestoreRead(S, stateId, path, context) ==
    IF context = "firestore" THEN S
    ELSE IF path = <<EmptySeg>> THEN S
    ELSE firestoreGetDataOnce(S, stateId, path)

localStorageWrite(S, stateId, context) ==
    IF context = "localStorage" THEN S ELSE Emit(S, "setItem", stateId)

\* nativeStorageWrite without its first line
nativeStorageWriteBack(S, stateId, path, context) ==
    Start(S, "setItem", "AsyncStorage", stateId, path)

nativeStorageWrite(S, stateId, path, context) ==
    IF context = "AsyncStorage" THEN S ELSE Start(S, "setItem", "AsyncStorage", stateId, path)

\* ONEJS.currentState[stateId].storage(newValue, context, documentId)
callStorage(S, stateId, data, context, documentId) ==
    LET path == cfg[stateId].storage.path
        ad == storageOf(stateId)
        S1 == Emit(Emit(S, "storage", stateId), "context", context)
    IN  CASE ad = "firestoreWrite" -> firestoreWrite(S1, stateId, path, data, context, documentId)
          [] ad = "indexedDBWrite" -> indexedDBWrite(S1, stateId, path, data, context, documentId)
          [] ad = "localStorageWrite" -> localStorageWrite(S1, stateId, context)
          [] ad = "nativeStorageWrite" -> nativeStorageWrite(S1, stateId, path, context)
          [] OTHER -> S1

\* ONEJS.currentState[stateId].removal(documentId)
callRemoval(S, stateId, documentId) ==
    LET path == cfg[stateId].storage.path
        ad == removalOf(stateId)
        S1 == Emit(S, "removal", stateId)
    IN  CASE ad = "firestoreRemove" -> firestoreRemove(S1, stateId, path, documentId)
          [] ad = "indexedDBRemove" -> indexedDBRemove(S1, stateId, path, documentId)
          [] ad = "localStorageRemove" -> Emit(S1, "removeItem", stateId)
          [] ad = "nativeStorageRemove" -> Start(S1, "removeItem", "AsyncStorage", stateId, path)
          [] OTHER -> S1

\* ONEJS.currentState[stateId].source(stateId, context)
callSource(S, stateId, context) ==
    LET path == cfg[stateId].source.path
        ad == sourceOf(stateId)
        S1 == Emit(S, "source", stateId)
    IN  CASE ad = "firestoreRead" -> firestoreRead(S1, stateId, path, context)
          [] ad = "indexedDBRead" -> indexedDBRead(S1, stateId, path, context)
          [] OTHER -> S1

\* one '<id>stateChange' listener, run by dispatchEvent
runListener(S, l) ==
    IF l.kind = "firestore" THEN firestoreGetDataOnce(S, l.v, l.path)
    ELSE IF ~Truthy(read(S.value, readStateId(l.path))) THEN S
    ELSE idbGet(S, l.v, readPathWithState(S.value, S.heap, l.path))

RECURSIVE runListeners(_, _, _)
runListeners(S, ls, stateId) ==
    IF ls = <<>> THEN S
    ELSE Then(IF Head(ls).on = stateId THEN runListener(S, Head(ls)) ELSE S,
              LAMBDA T : runListeners(T, Tail(ls), stateId))

\* window.dispatchEvent(new CustomEvent(stateId + 'stateChange'))
dispatchStateChange(S, stateId) == runListeners(Emit(S, "alert", stateId), S.listeners, stateId)

-----------------------------------------------------------------------------
(* write *)

\* array.findIndex(doc => doc.id === documentId), 0 for -1
findIndex(els, documentId) ==
    IF \E i \in 1..Len(els) : els[i].id = documentId
    THEN CHOOSE i \in 1..Len(els) : els[i].id = documentId /\ \A j \in 1..(i - 1) : els[j].id # documentId
    ELSE 0

RemoveAt(els, i) == SubSeq(els, 1, i - 1) \o SubSeq(els, i + 1, Len(els))

\* array.splice(array.findIndex(...), 1): splice(-1, 1) takes the last element
spliceById(els, documentId) ==
    IF els = <<>> THEN els
    ELSE IF findIndex(els, documentId) = 0 THEN RemoveAt(els, Len(els))
    ELSE RemoveAt(els, findIndex(els, documentId))

\* array.push(newValue) in its place
assignByIdPush(els, documentId, newValue) == Append(els, newValue)

\* array[array.findIndex(...)] = newValue: index -1 sets a property, no element
assignById(els, documentId, newValue) ==
    IF findIndex(els, documentId) = 0 THEN els
    ELSE [els EXCEPT ![findIndex(els, documentId)] = newValue]

Actions == {"add", "remove", "update", "updateArray"}

assignNothing(S, stateId, newValue) == S
\* ONEJS.currentState[stateId].value = newValue
assign(S, stateId, newValue) == [S EXCEPT !.value[stateId] = newValue]

\* lines 818-841: the in-memory mutation
mutateValue(S, stateId, newValue, action, documentId) ==
    LET oldValue == S.value[stateId]
        a == oldValue.n
    IN  CASE action = "add" ->
               IF ~IsArr(S.heap, oldValue) THEN Throw(S, stateId)
               ELSE Emit([S EXCEPT !.heap[a].els = Append(@, newValue)], "value", stateId)
          [] action = "remove" /\ documentId # 0 ->
               IF ~IsArr(S.heap, oldValue) THEN Throw(S, stateId)
               ELSE Emit([S EXCEPT !.heap[a].els = spliceById(@, documentId)], "value", stateId)
          [] action = "remove" /\ documentId = 0 ->
               IF IsArr(S.heap, oldValue)
               THEN IF ~CanAlloc(S) THEN [S EXCEPT !.oom = TRUE]
                    ELSE Emit([S EXCEPT !.heap[NewAddr(S)] = ArrCell(<<>>),
                                        !.value[stateId] = Ref(NewAddr(S))], "value", stateId)
               ELSE Emit([S EXCEPT !.value[stateId] = Undef], "value", stateId)
          [] action = "updateArray" ->
               IF ~IsArr(S.heap, oldValue) THEN Throw(S, stateId)
               ELSE Emit([S EXCEPT !.heap[a].els = assignById(@, documentId, newValue)], "value", stateId)
          [] action = "update" -> Emit(assign(S, stateId, newValue), "value", stateId)
          [] OTHER -> S

\* the newValue the rest of write sees (line 828 reassigns it)
newValueAfter(S, S1, stateId, newValue, action, documentId) ==
    IF action = "remove" /\ documentId = 0 THEN S1.value[stateId] ELSE newValue

\* indexedDBWrite reaches data.id = documentId (line 584)
idbSetsId(S, stateId, data, context, documentId) ==
    /\ storageOf(stateId) = "indexedDBWrite"
    /\ context # "indexedDB"
    /\ cfg[stateId].storage.path # <<EmptySeg>>
    /\ readPathWithState(S.value, S.heap, cfg[stateId].storage.path) # NoPath
    /\ documentId # 0
    /\ data.t = "elem"

\* data.id = documentId, seen through the array slot that holds data
setIdInArray(S, stateId, idx, documentId) ==
    LET v == S.value[stateId]
    IN  IF IsArr(S.heap, v) /\ idx \in 1..Len(S.heap[v.n].els)
        THEN [S EXCEPT !.heap[v.n].els[idx].id = documentId]
        ELSE S

\* line 846
runRemoval(S, stateId, action, documentId) ==
    IF removalOf(stateId) # "none" /\ action = "remove"
    THEN callRemoval(S, stateId, documentId) ELSE S

\* line 847; data.id = documentId shows in the array that holds data
runStorage(S, stateId, newValue, context, action, documentId, idx) ==
    IF ~S.thrown /\ storageOf(stateId) # "none" /\ action # "remove"
    THEN Then(callStorage(S, stateId, newValue, context, documentId),
              LAMBDA C : IF idbSetsId(S, stateId, newValue, context, documentId)
                         THEN setIdInArray(C, stateId, idx, documentId) ELSE C)
    ELSE S

\* line 848
runOnChange(S, stateId) ==
    IF ~S.thrown /\ cfg[stateId].onChange THEN Emit(S, "onChange", stateId) ELSE S

\* line 849
runAlert(S, stateId) ==
    IF ~S.thrown /\ alertOf(stateId) THEN dispatchStateChange(S, stateId) ELSE S

\* line 850
runSource(S, stateId, context, action) ==
    IF ~S.thrown /\ sourceOf(stateId) # "none" /\ action = "add"
    THEN callSource(S, stateId, context) ELSE S

\* the change hook called before the adapters
afterSaveHookFirst(S, stateId, newValue, context, action, documentId, idx) ==
    Then(runOnChange(S, stateId), LAMBDA S1 :
    Then(runRemoval(S1, stateId, action, documentId), LAMBDA S2 :
    Then(runStorage(S2, stateId, newValue, context, action, documentId, idx), LAMBDA S3 :
    Then(runAlert(S3, stateId), LAMBDA S4 :
    runSource(S4, stateId, context, action)))))

\* lines 846-850, each step skipped once an adapter has thrown
afterSave(S, stateId, newValue, context, action, documentId, idx) ==
    Then(runRemoval(S, stateId, action, documentId), LAMBDA S1 :
    Then(runStorage(S1, stateId, newValue, context, action, documentId, idx), LAMBDA S2 :
    Then(runOnChange(S2, stateId), LAMBDA S3 :
    Then(runAlert(S3, stateId), LAMBDA S4 :
    runSource(S4, stateId, context, action)))))

\* lines 844-850, after the in-memory mutation left the store S1
recordAndPersist(S, S1, stateId, newValue, context, action, documentId) ==
    afterSave(saveState(S1, stateId, S.value[stateId], S1.value[stateId], context, action, documentId),
              stateId,
              newValueAfter(S, S1, stateId, newValue, action, documentId),
              context, action, documentId,
              IF action = "updateArray" THEN findIndex(S.heap[S.value[stateId].n].els, documentId) ELSE 0)

\* write without line 843
writeThrough(S, stateId, newValue, context, action, documentId) ==
    IF stateId \notin DOMAIN S.value THEN Throw(S, stateId)
    ELSE IF StrictEq(S.value[stateId], newValue) THEN S
    ELSE Then(mutateValue(S, stateId, newValue, action, documentId), LAMBDA S1 :
              IF S1.thrown \/ S1.oom \/ action \notin Actions THEN S1
              ELSE recordAndPersist(S, S1, stateId, newValue, context, action, documentId))

\* write(stateId, newValue, context, action, documentId)
write(S, stateId, newValue, context, action, documentId) ==
    IF stateId \notin DOMAIN S.value THEN Throw(S, stateId)
    ELSE IF StrictEq(S.value[stateId], newValue) THEN S
    ELSE Then(mutateValue(S, stateId, newValue, action, documentId), LAMBDA S1 :
              IF S1.thrown \/ S1.oom \/ action \notin Actions THEN S1
              ELSE IF context = "stateHistory" THEN S1
              ELSE recordAndPersist(S, S1, stateId, newValue, context, action, documentId))

-----------------------------------------------------------------------------
(* add, update, remove: the exported wrappers *)

\* an event handed to a wrapper: a raw value, or an object with a target
Raw(x) == [target |-> FALSE, type |-> "", checked |-> Undef, value |-> x]
Event(type, checked, x) == [target |-> TRUE, type |-> type, checked |-> checked, value |-> x]

\* (event?.target) ? (type === 'checkbox' ? target.checked : target.value) : event
eventValue(event) ==
    IF event.target THEN (IF event.type = "checkbox" THEN event.checked ELSE event.value)
    ELSE event.value

add(S, stateId, event) == write(S, stateId, eventValue(event), "app", "add", 0)

update(S, stateId, documentId, event) ==
    write(S, stateId, eventValue(event), "app",
          IF documentId # 0 THEN "updateArray" ELSE "update", documentId)

remove(S, stateId, documentId) == write(S, stateId, Undef, "app", "remove", documentId)

-----------------------------------------------------------------------------
(* goToState, nextState, previousState *)

\* the loop below with the context of an application call
RECURSIVE replayOldAsApp(_, _, _)
replayOldAsApp(S, i, to) ==
    IF i < to
    THEN Then(write(S, S.hist[i + 1].stateId, S.hist[i + 1].oldValue, "app", "update", 0),
              LAMBDA T : replayOldAsApp(T, i + 1, to))
    ELSE S

\* for (i = from; i < to; i++) write(stateHistory[i].stateId, stateHistory[i].oldValue, 'stateHistory')
RECURSIVE replayOld(_, _, _)
replayOld(S, i, to) ==
    IF i < to
    THEN Then(write(S, S.hist[i + 1].stateId, S.hist[i + 1].oldValue, "stateHistory", "update", 0),
              LAMBDA T : replayOld(T, i + 1, to))
    ELSE S

\* for (i = from; i >= to; i--) write(stateHistory[i].stateId, stateHistory[i].newValue, 'stateHistory')
RECURSIVE replayNew(_, _, _)
replayNew(S, i, to) ==
    IF i >= to
    THEN Then(write(S, S.hist[i + 1].stateId, S.hist[i + 1].newValue, "stateHistory", "update", 0),
              LAMBDA T : replayNew(T, i - 1, to))
    ELSE S

\* comparisons with NaN are false
Lt(x, y) == x # NaN /\ y # NaN /\ x < y
Ge(x, y) == x # NaN /\ y # NaN /\ x >= y
Gt(x, y) == x # NaN /\ y # NaN /\ x > y
NumEq(x, y) == x # NaN /\ y # NaN /\ x = y
Minus(x, y) == IF x = NaN THEN NaN ELSE x - y
Plus(x, y) == IF x = NaN THEN NaN ELSE x + y

\* An argument of goToState: a number, counted in halves so that -0.5 is NumArg(-1)
\* and 1 is NumArg(2), or a string without digits.
NumArg(halves) == [num |-> TRUE, h |-> halves]
IntArg(n) == NumArg(2 * n)
TextArg == [num |-> FALSE, h |-> 0]
\* parseInt(statePosition): the digits before the point, NaN when there are none
parseInt(arg) ==
    IF ~arg.num THEN NaN
    ELSE IF arg.h >= 0 THEN arg.h \div 2
    ELSE 0 - ((0 - arg.h) \div 2)

goToStateAt(S, statePosition) ==
    IF Lt(statePosition, 0) \/ Ge(statePosition, Len(S.hist))
    THEN Emit(S, "error", "")
    ELSE IF NumEq(statePosition, S.pos) THEN S
    ELSE IF Gt(statePosition, S.pos)
    THEN [replayOld(S, S.pos, statePosition) EXCEPT !.pos = statePosition]
    ELSE IF statePosition # NaN /\ S.pos # NaN
    THEN [replayNew(S, S.pos - 1, statePosition) EXCEPT !.pos = statePosition]
    ELSE [S EXCEPT !.pos = statePosition]

goToState(S, arg) == goToStateAt(S, parseInt(arg))

nextState(S) == goToStateAt(S, Minus(S.pos, 1))

previousState(S) == goToStateAt(S, Plus(S.pos, 1))

-----------------------------------------------------------------------------
(* setupState *)

AllIds == <<"a", "b", "c">>
\* Object.entries(config): the declared ids, in declaration order
IdSeq == SelectSeq(AllIds, LAMBDA v : v \in Ids)

NewArr == [t |-> "newarr", n |-> 0, id |-> 0]     \* a default of []
Rank(v) == CHOOSE i \in 1..Len(AllIds) : AllIds[i] = v

\* step 1 left out: no variable holds anything
setupNoDefaults ==
    [value |-> [v \in Ids |-> Undef],
     heap |-> [a \in Addr |-> FreeCell],
     hist |-> <<>>, pos |-> 0, snap |-> <<>>, pend |-> <<>>, trace |-> <<>>,
     thrown |-> FALSE, oom |-> FALSE, listeners |-> <<>>, idbOpen |-> FALSE]

\* step 1: every variable holds its default
setupDefaults ==
    [value |-> [v \in Ids |-> IF cfg[v].dflt = NewArr THEN Ref(Rank(v)) ELSE cfg[v].dflt],
     heap |-> [a \in Addr |-> IF \E v \in Ids : cfg[v].dflt = NewArr /\ Rank(v) = a
                              THEN ArrCell(<<>>) ELSE FreeCell],
     hist |-> <<>>, pos |-> 0, snap |-> <<>>, pend |-> <<>>, trace |-> <<>>,
     thrown |-> FALSE, oom |-> FALSE, listeners |-> <<>>, idbOpen |-> FALSE]

Listener(on, v, kind, path) == [on |-> on, v |-> v, kind |-> kind, path |-> path]

\* firestoreRead(path)(stateId, 'initialize')
firestoreInitialize(S, stateId, path) ==
    IF path = <<EmptySeg>> THEN S
    ELSE IF HasAt(path)
    THEN firestoreGetDataOnce(
             [S EXCEPT !.listeners = Append(@, Listener(readStateId(path), stateId, "firestore", path))],
             stateId, path)
    ELSE Start(S, "onSnapshot", "firestore", stateId, path)

\* indexedDBRead(path)(stateId, 'initialize')
indexedDBInitialize(S, stateId, path) ==
    IF path = <<EmptySeg>> THEN S
    ELSE LET S1 == IF HasAt(path)
                   THEN [S EXCEPT !.listeners = Append(@, Listener(readStateId(path), stateId, "indexedDB", path))]
                   ELSE S
             rp == readPathWithState(S.value, S.heap, path)
         IN  IF rp = NoPath THEN Throw(S1, stateId) ELSE idbGet(S1, stateId, rp)

\* localStorageRead(path)(stateId); item is what localStorage.getItem returns
localStorageRead(S, stateId, item) ==
    IF item = Null THEN S ELSE write(S, stateId, item, "localStorage", "update", 0)

\* step 3 for one variable
setupSource(S, stateId, item) ==
    LET so == cfg[stateId].source
    IN  CASE so.kind = "firestore" -> firestoreInitialize(Emit(S, "source", stateId), stateId, so.path)
          [] so.kind = "local" /\ os = "web" -> localStorageRead(Emit(S, "source", stateId), stateId, item)
          [] so.kind = "local" /\ os \in {"ios", "android"} ->
               Start(Emit(S, "source", stateId), "getItem", "AsyncStorage", stateId, so.path)
          [] so.kind = "function" -> Emit(S, "source", stateId)
          [] OTHER -> S

RECURSIVE setupSources(_, _, _)
setupSources(S, ids, items) ==
    IF ids = <<>> THEN S
    ELSE Then(setupSource(S, Head(ids), items[Head(ids)]),
              LAMBDA T : setupSources(T, Tail(ids), items))

UsesIndexedDB == \E v \in Ids : cfg[v].source.kind = "indexedDB" \/ cfg[v].storage.kind = "indexedDB"

\* lines 1031-1083: the database is opened once a collection is required
setupIndexedDB(S) ==
    IF ~UsesIndexedDB THEN S
    ELSE IF os # "web" THEN Emit(S, "error", "")
    ELSE Start(S, "open", "indexedDB", "", <<>>)

setupState(items) == setupIndexedDB(setupSources(setupDefaults, IdSeq, items))

\* path.split('/').filter(Boolean)[0], for the providers of kind indexedDB
FirstSeg(prov) ==
    IF prov.kind = "indexedDB" /\ NonEmptySegs(prov.path) # <<>>
    THEN {NonEmptySegs(prov.path)[1].id} ELSE {}

\* indexedDBCollections, once steps 2 and 3 have run
indexedDBCollections == UNION {FirstSeg(cfg[v].storage) \cup FirstSeg(cfg[v].source) : v \in Ids}

\* nothing persisted yet and no database: version is localStorage's
\* 'oneIndexedDBVersion' (0: no item), collections its 'oneIndexedDBCollections'
\* ({}: no item), db the version of the database (0: none), stores its object
\* stores, opened the version the database has after each indexedDB.open
NoSchema == [version |-> 0, collections |-> {}, db |-> 0, stores |-> {}, opened |-> <<>>]

\* indexedDB.open(name, version), version 0 standing for undefined; onupgradeneeded
\* creates the missing object stores
idbOpenAt(sch, version) ==
    LET target == IF version # 0 THEN version ELSE IF sch.db = 0 THEN 1 ELSE sch.db
    IN  IF target < sch.db THEN sch
        ELSE [sch EXCEPT !.db = target,
                         !.stores = IF target > sch.db THEN @ \cup indexedDBCollections ELSE @,
                         !.opened = Append(@, target)]

\* lines 1031-1060: the version is computed and handed to indexedDB.open, and
\* localStorage.getItem(key, version) stores nothing
setupVersion(sch) ==
    IF indexedDBCollections = {} \/ os # "web" THEN sch
    ELSE IF sch.collections = {} \/ ~(indexedDBCollections \subseteq sch.collections)
    THEN idbOpenAt([sch EXCEPT !.collections = indexedDBCollections], sch.version + 1)
    ELSE idbOpenAt(sch, sch.version)

\* openRequest.onsuccess
RECURSIVE openSuccess(_, _)
openSuccess(S, ids) ==
    IF ids = <<>> \/ S.thrown THEN S
    ELSE Then(IF cfg[Head(ids)].source.kind = "indexedDB"
              THEN indexedDBInitialize(S, Head(ids), cfg[Head(ids)].source.path)
              ELSE S,
              LAMBDA T : openSuccess(T, Tail(ids)))

-----------------------------------------------------------------------------
(* Completion of provider I/O *)

RemoveIo(S, i) == [S EXCEPT !.pend = SubSeq(@, 1, i - 1) \o SubSeq(@, i + 1, Len(@))]

\* a fresh object or array delivered by a backend, written with the adapter's label
writeFresh(S, stateId, cell, context) ==
    IF ~CanAlloc(S) THEN [S EXCEPT !.oom = TRUE]
    ELSE Then(NewAddr(S), LAMBDA a :
              write([S EXCEPT !.heap[a] = cell], stateId, Ref(a), context, "update", 0))

\* a write to path w changes what a subscription on path p delivers
Affects(w, p) == w = p \/ (Len(p) % 2 = 1 /\ Len(w) = Len(p) + 1 /\ SubSeq(w, 1, Len(p)) = p)

Subscribed(v) ==
    /\ cfg[v].source.kind = "firestore"
    /\ cfg[v].source.path # <<EmptySeg>>
    /\ ~HasAt(cfg[v].source.path)

RECURSIVE notifySubscribers(_, _, _)
notifySubscribers(S, ids, w) ==
    IF ids = <<>> THEN S
    ELSE Then(IF Subscribed(Head(ids)) /\ Affects(w, cfg[Head(ids)].source.path)
              THEN Start(S, "onSnapshot", "firestore", Head(ids), cfg[Head(ids)].source.path)
              ELSE S,
              LAMBDA T : notifySubscribers(T, Tail(ids), w))

Reads == {"getDoc", "getDocs", "get", "getAll", "onSnapshot", "getItem"}
FirestoreWrites == {"setDoc", "addDoc", "deleteDoc", "deleteAll"}
OtherWrites == {"put", "add", "delete", "clear", "setItem", "removeItem"}
Results == {"ok", "none", "fail"}

\* what the backend can answer to a request
Answers(io) ==
    CASE io.k \in {"getDoc", "get", "getItem"} -> {"ok", "none", "fail"}
      [] io.k = "onSnapshot" /\ Len(io.path) % 2 = 0 -> {"ok", "none"}
      [] io.k = "onSnapshot" -> {"ok"}
      [] OTHER -> {"ok", "fail"}

\* what a read that was answered hands to write: a fresh object, a fresh array,
\* a plain value, or nothing
Nothing == [k |-> "nothing", cell |-> FreeCell, value |-> Undef]
Fresh(cell) == [k |-> "fresh", cell |-> cell, value |-> Undef]
Plain(x) == [k |-> "plain", cell |-> FreeCell, value |-> x]
delivered(io, r, els) ==
    CASE io.k = "getDoc" /\ r = "ok" -> Fresh(ObjCell)
      [] io.k = "getDocs" -> Fresh(ArrCell(els))
      [] io.k = "onSnapshot" /\ Len(io.path) % 2 = 0 /\ r = "ok" -> Fresh(ObjCell)
      [] io.k = "onSnapshot" /\ Len(io.path) % 2 = 0 /\ r = "none" -> Plain(Undef)
      [] io.k = "onSnapshot" -> Fresh(ArrCell(els))
      [] io.k = "get" /\ r = "ok" -> Fresh(ObjCell)
      [] io.k = "get" /\ r = "none" -> Plain(Undef)
      [] io.k = "getAll" -> Fresh(ArrCell(els))
      [] io.k = "getItem" /\ r = "ok" -> Plain(Num(1))
      [] OTHER -> Nothing

\* the callback of a settled request
complete(S, io, r, els) ==
    CASE r = "fail" -> Emit(S, "error", io.v)
      [] io.k = "getDoc" /\ r = "none" -> Emit(S, "error", io.v)
      [] io.k = "open" -> openSuccess([S EXCEPT !.idbOpen = TRUE], IdSeq)
      [] io.k \in FirestoreWrites -> notifySubscribers(S, IdSeq, io.path)
      [] delivered(io, r, els).k = "fresh" -> writeFresh(S, io.v, delivered(io, r, els).cell, io.be)
      [] delivered(io, r, els).k = "plain" ->
           write(S, io.v, delivered(io, r, els).value, io.be, "update", 0)
      [] OTHER -> S

-----------------------------------------------------------------------------
(* Actions *)

Cur == [value |-> value, heap |-> heap, hist |-> stateHistory, pos |-> stateHistoryPosition,
        snap |-> snap, pend |-> pend, trace |-> <<>>, thrown |-> FALSE, oom |-> FALSE,
        listeners |-> listeners, idbOpen |-> idbOpen]

\* the handler that runs, its arguments, and the cursor and log length it found
CallAt(op, v, x, documentId, context, action, arg, pos0, len0, old0) ==
    [op |-> op, v |-> v, x |-> x, documentId |-> documentId, context |-> context,
     action |-> action, arg |-> arg, pos0 |-> pos0, len0 |-> len0, old0 |-> old0]
NoArg == [num |-> FALSE, h |-> 0]
Call(op, v, x, documentId, context, action) ==
    CallAt(op, v, x, documentId, context, action, NoArg, stateHistoryPosition, Len(stateHistory),
           IF v \in Ids THEN value[v] ELSE Undef)
Nav(op, arg, target) ==
    CallAt(op, "", Undef, target, "stateHistory", "", arg, stateHistoryPosition, Len(stateHistory), Undef)

\* the handler's result T becomes the next state; what no longer is referenced
\* leaves the heap
Apply(S, c, f) ==
    \E T \in {S} :
        /\ ~T.oom
        /\ Len(T.pend) <= MaxPend
        /\ value' = T.value
        /\ \E live \in {Live(T)} : heap' = Keep(T.heap, live)
        /\ stateHistory' = T.hist
        /\ stateHistoryPosition' = T.pos
        /\ snap' = T.snap
        /\ pend' = T.pend
        /\ trace' = T.trace
        /\ listeners' = T.listeners
        /\ idbOpen' = T.idbOpen
        /\ call' = c
        /\ fuel' = f
        /\ UNCHANGED <<cfg, os, resolved, schema>>

\* a handler of the program: nothing it does reaches the backend before the
\* request it started lands
Commit(S, c, f) == Apply(S, c, f) /\ UNCHANGED remote

\* update(stateId)(event)
Update(v, event) ==
    /\ fuel > 0
    /\ Commit(update(Cur, v, 0, event), Call("update", v, eventValue(event), 0, "app", "update"), fuel - 1)

\* update(stateId, documentId)(event)
UpdateArray(v, documentId, event) ==
    /\ fuel > 0
    /\ documentId # 0
    /\ Commit(update(Cur, v, documentId, event),
              Call("update", v, eventValue(event), documentId, "app", "updateArray"), fuel - 1)

\* add(stateId)(event)
Add(v, event) ==
    /\ fuel > 0
    /\ Commit(add(Cur, v, event), Call("add", v, eventValue(event), 0, "app", "add"), fuel - 1)

\* remove(stateId, documentId)
Remove(v, documentId) ==
    /\ fuel > 0
    /\ Commit(remove(Cur, v, documentId), Call("remove", v, Undef, documentId, "app", "remove"), fuel - 1)

GoToState(arg) ==
    /\ fuel > 0
    /\ Commit(goToState(Cur, arg), Nav("goToState", arg, parseInt(arg)), fuel - 1)

NextState ==
    /\ fuel > 0
    /\ Commit(nextState(Cur), Nav("nextState", NoArg, Minus(stateHistoryPosition, 1)), fuel - 1)

PreviousState ==
    /\ fuel > 0
    /\ Commit(previousState(Cur), Nav("previousState", NoArg, Plus(stateHistoryPosition, 1)), fuel - 1)

\* a pending request settles and its callback runs
Complete(i, r, els) ==
    /\ i \in 1..Len(pend)
    /\ r \in Answers(pend[i])
    /\ Commit(complete(RemoveIo(Cur, i), pend[i], r, els),
              Call(pend[i].k, pend[i].v, Undef, 0, pend[i].be, r), fuel)

-----------------------------------------------------------------------------
(* Configurations *)

P(kind, path) == Prov(kind, path)
EventsOfA == <<Lit("events"), Ph("a")>>         \* 'events/<a>'
AtEventsOfA == <<At("@events"), Ph("a")>>       \* '@events/<a>'

\* no provider at all; a has an onChange hook
CfgPlain ==
    [a |-> Var(Num(0), NoProv, NoProv, TRUE),
     b |-> Var(Num(0), NoProv, NoProv, FALSE)]

\* b is read from and stored to the firestore document 'events/<a>'
CfgFirestore ==
    [a |-> Var(Undef, NoProv, NoProv, FALSE),
     b |-> Var(Undef, P("firestore", AtEventsOfA), P("firestore", EventsOfA), TRUE)]

\* b is read from and stored to the indexedDB document 'events/<a>'
CfgIndexedDB ==
    [a |-> Var(Undef, NoProv, NoProv, FALSE),
     b |-> Var(Undef, P("indexedDB", AtEventsOfA), P("indexedDB", EventsOfA), TRUE)]

\* a is the firestore collection 'events', b the localStorage item 'b'
CfgCollection ==
    [a |-> Var(NewArr, P("firestore", <<Lit("events")>>), P("firestore", <<Lit("events")>>), FALSE),
     b |-> Var(Num(0), P("local", <<Lit("b")>>), P("local", <<Lit("b")>>), TRUE)]

\* a is read from and stored to the localStorage (AsyncStorage) item 'a'
CfgLocal ==
    [a |-> Var(Num(0), P("local", <<Lit("a")>>), P("local", <<Lit("a")>>), TRUE),
     b |-> Var(Num(0), NoProv, NoProv, FALSE)]

\* the documents 'events/1' and 'events/2' exist in the backend
RecordIds == {1, 2}

Scenario(c, o, items) == [cfg |-> c, os |-> o, items |-> items]
NoItems == [a |-> Null, b |-> Null]

InitWith(sc, f) ==
    /\ cfg = sc.cfg
    /\ os = sc.os
    /\ \E S \in {setupState(sc.items)} :
           /\ value = S.value
           /\ heap = S.heap
           /\ stateHistory = S.hist
           /\ stateHistoryPosition = S.pos
           /\ snap = S.snap
           /\ pend = S.pend
           /\ trace = S.trace
           /\ listeners = S.listeners
           /\ idbOpen = S.idbOpen
    /\ call = CallAt("setupState", "", Undef, 0, "", "", NoArg, 0, 0, Undef)
    /\ fuel = f
    /\ resolved = [path |-> <<EmptySeg>>, result |-> <<EmptySeg>>]
    /\ schema = setupVersion(NoSchema)
    /\ remote = [n \in RecordIds |-> Elem(0, n)]

-----------------------------------------------------------------------------
(* Spec: the store and its history, with providers that settle at once *)

Scenarios ==
    {Scenario(CfgPlain, "web", NoItems),
     Scenario(CfgLocal, "web", NoItems),
     Scenario(CfgLocal, "web", [a |-> Num(1), b |-> Null])}

Inputs == [a |-> {Raw(Num(0)), Raw(Num(1)), Raw(NaNVal),
                  Event("text", Undef, Num(1)), Event("checkbox", Num(0), Num(1))},
           b |-> {Raw(Num(0)), Raw(Num(1))}]
NavArgs == {NumArg(0 - 1), IntArg(0 - 1), IntArg(0), IntArg(1), IntArg(2), TextArg}

\* ids the configuration does not declare
Undeclared == {AllIds[i] : i \in 1..Len(AllIds)} \ Ids

Init == \E sc \in Scenarios : InitWith(sc, MaxFuel)

Next ==
    \/ \E v \in Ids : \E e \in Inputs[v] : Update(v, e)
    \/ Remove("a", 0)
    \/ \E arg \in NavArgs : GoToState(arg)
    \/ NextState
    \/ PreviousState

Spec == Init /\ [][Next]_vars

\* the same calls, and the wrappers called with an id that is not declared
NextUndeclared ==
    \/ Next
    \/ \E v \in Undeclared : Update(v, Raw(Num(1)))
    \/ \E v \in Undeclared : Add(v, Raw(Num(1)))
    \/ \E v \in Undeclared : Remove(v, 0)

SpecUndeclared == Init /\ [][NextUndeclared]_vars

-----------------------------------------------------------------------------
(* SpecIO: providers whose I/O settles later, in any order *)

ScenariosIO ==
    {Scenario(CfgFirestore, "web", NoItems),
     Scenario(CfgIndexedDB, "web", NoItems),
     Scenario(CfgCollection, "web", [a |-> Null, b |-> Num(1)]),
     Scenario(CfgCollection, "ios", NoItems)}

Scalars == {Num(1)}
Elems == {Raw(Elem(0, 1))}
DocIds == {1}
FetchedEls == {<<Elem(1, 1)>>}

InitIO == \E sc \in ScenariosIO : InitWith(sc, MaxCalls)

NextIO ==
    \/ \E v \in Ids, x \in Scalars : Update(v, Raw(x))
    \/ \E v \in Ids, d \in DocIds, e \in Elems : UpdateArray(v, d, e)
    \/ \E v \in Ids, e \in Elems : Add(v, e)
    \/ \E v \in Ids, d \in DocIds \cup {0} : Remove(v, d)
    \/ \E i \in 1..Len(pend), r \in Results, els \in FetchedEls : Complete(i, r, els)

SpecIO == InitIO /\ [][NextIO]_vars

TypeOK == /\ Len(stateHistory) <= stateHistorySize
          /\ Len(snap) = Len(stateHistory)

-----------------------------------------------------------------------------
(* What the last handler did *)

Has(e) == \E i \in 1..Len(trace) : trace[i].e = e
HasFor(e, v) == \E i \in 1..Len(trace) : trace[i] = Ev(e, v)
Saves(tr) == Cardinality({i \in 1..Len(tr) : tr[i].e = "saveState"})
NavOps == {"goToState", "nextState", "previousState"}
IsPlainUpdate(c) == c.op = "update" /\ c.action = "update"

-----------------------------------------------------------------------------
(* The store: update and read *)

\* C1: after update(V)(X), whatever V held before, reading V returns X, where X
\* is the value the wrapper extracts from its argument.
C1_UpdateThenRead ==
    IsPlainUpdate(call) => read(value, call.v) = call.x

\* an update to 1 that changed the variable
C1_Witness ==
    /\ IsPlainUpdate(call)
    /\ call.x = Num(1)
    /\ call.old0 # Num(1)
    /\ HasFor("value", call.v)
    /\ value[call.v] = Num(1)

\* the step is a second update(V)(X) right after a first one
SecondOfTwo ==
    /\ IsPlainUpdate(call)
    /\ IsPlainUpdate(call')
    /\ call'.v = call.v
    /\ call'.x = call.x
    /\ fuel' = fuel - 1

NoOp ==
    /\ UNCHANGED <<value, heap, stateHistory, stateHistoryPosition, pend>>
    /\ trace' = <<>>

\* C4 as stated: two update(V)(X) in a row make exactly one record, and the
\* second one appends nothing, calls no storage adapter and no change hook.
C4_Original ==
    [][SecondOfTwo => (Saves(trace) = 1 /\ NoOp)]_vars

\* C4: for X other than NaN, the second of two update(V)(X) in a row is a no-op
\* (no record, no storage call, no hook, no alert), and the two calls make one
\* record when V held something else than X before them and none when V
\* already held X.
C4_Idempotent ==
    [][(SecondOfTwo /\ call.x # NaNVal)
        => /\ NoOp
           /\ Saves(trace) = (IF call.old0 = call.x THEN 0 ELSE 1)]_vars

\* exactly two calls were made: update(V)(1) made the one record, and the same
\* update again did nothing
C4_Witness ==
    /\ fuel = MaxFuel - 2
    /\ IsPlainUpdate(call)
    /\ call.x = Num(1)
    /\ call.old0 = Num(1)
    /\ trace = <<>>
    /\ Len(stateHistory) = 1
    /\ stateHistory[1].stateId = call.v
    /\ stateHistory[1].newValue = Num(1)
    /\ stateHistory[1].oldValue = Num(0)

\* the step is add, update or remove on an id that is not declared
UnknownId ==
    /\ fuel' = fuel - 1
    /\ call'.op \in {"add", "update", "remove"}
    /\ call'.v \notin Ids

\* C12: add, update or remove on an id the configuration does not declare
\* throws, and changes no value, no record and not the cursor, starts no
\* provider call and runs no hook and no notification.
C12_UnknownId ==
    [][UnknownId
        => /\ UNCHANGED <<value, heap, stateHistory, stateHistoryPosition, pend, listeners, idbOpen>>
           /\ trace' = <<Ev("throw", call'.v)>>]_vars

\* update on an undeclared id threw while the log held two records and the
\* cursor was one step back
C12_Witness ==
    /\ call.op = "update"
    /\ call.v \notin Ids
    /\ trace = <<Ev("throw", call.v)>>
    /\ Len(stateHistory) = 2
    /\ stateHistoryPosition = 1
    /\ call.pos0 = 1
    /\ call.len0 = 2

\* the step is remove(V, elementId) on a variable that holds a sequence
RemoveById ==
    /\ fuel' = fuel - 1
    /\ call'.op = "remove"
    /\ call'.documentId # 0
    /\ call'.v \in Ids
    /\ IsArr(heap, value[call'.v])

\* the elements of els whose id is not documentId, in their order
Others(els, documentId) == SelectSeq(els, LAMBDA e : e.id # documentId)

\* C13 as stated: remove(V, elementId) takes out of V's sequence the element
\* whose id is elementId and nothing else: the elements with another id stay,
\* in their order.
C13_Original ==
    [][RemoveById
        => LET els == heap[value[call'.v].n].els
               d == call'.documentId
           IN  /\ value'[call'.v] = value[call'.v]
               /\ Others(heap'[value[call'.v].n].els, d) = Others(els, d)
               /\ Len(heap'[value[call'.v].n].els)
                    = Len(els) - (IF Others(els, d) = els THEN 0 ELSE 1)]_vars

\* the value held before the call was a sequence
WasSequence == IsRef(call.old0) /\ heap[call.old0.n].k = "arr"

\* C14 as stated: every remove on a variable with a removal provider calls
\* that provider, whatever the variable holds; remove without elementId leaves
\* the empty sequence where a sequence was and undefined otherwise, and never
\* calls the storage provider.
C14_Original ==
    (call.op = "remove" /\ call.v \in Ids)
    => /\ removalOf(call.v) # "none" => HasFor("removal", call.v)
       /\ call.documentId = 0
          => /\ ~HasFor("storage", call.v)
             /\ IF WasSequence
                THEN IsArr(heap, value[call.v]) /\ heap[value[call.v].n].els = <<>>
                ELSE value[call.v] = Undef

-----------------------------------------------------------------------------
(* The history and its cursor *)

ScalarUpdatesOnly ==
    \A i \in 1..Len(stateHistory) :
        /\ stateHistory[i].action = "update"
        /\ IsScalar(stateHistory[i].oldValue)
        /\ IsScalar(stateHistory[i].newValue)

IsWhole(arg) == arg.num /\ arg.h % 2 = 0

\* C5 as stated: with only scalar update records in the log, goToState(k) for
\* 0 <= k < length leaves every variable with the value it had just before the
\* k most recent recorded mutations, and nextState from position k >= 1 leaves
\* the values held before the k-1 most recent ones.
C5_Original ==
    ScalarUpdatesOnly =>
        /\ (/\ call.op = "goToState"
            /\ IsWhole(call.arg)
            /\ call.documentId >= 0
            /\ call.documentId < Len(stateHistory))
           => value = snap[call.documentId + 1]
        /\ (call.op = "nextState" /\ call.pos0 >= 1 /\ call.pos0 < Len(stateHistory))
           => value = snap[call.pos0]

\* the records of v at the cursor and behind it, and those in front of it
\* (record i of the sequence is index i - 1 of the array)
KeptOf(v) ==
    {i \in 1..Len(stateHistory) :
        stateHistory[i].stateId = v /\ Ge(i - 1, stateHistoryPosition)}
UndoneOf(v) ==
    {i \in 1..Len(stateHistory) :
        stateHistory[i].stateId = v /\ Lt(i - 1, stateHistoryPosition)}

\* C30 as stated: with only scalar update records in the log, a variable with a
\* record at the cursor or behind it holds the newValue of the first such
\* record, and a variable with records only in front of the cursor holds the
\* oldValue of the last of them.
C30_Original ==
    ScalarUpdatesOnly =>
        \A v \in Ids :
            /\ KeptOf(v) # {}
               => \E i \in KeptOf(v) :
                      /\ \A j \in KeptOf(v) : i <= j
                      /\ value[v] = stateHistory[i].newValue
            /\ (KeptOf(v) = {} /\ UndoneOf(v) # {})
               => \E i \in UndoneOf(v) :
                      /\ \A j \in UndoneOf(v) : j <= i
                      /\ value[v] = stateHistory[i].oldValue

\* C7 as stated: the cursor is a number between 0 and the length of the log.
C7_Original ==
    /\ stateHistoryPosition # NaN
    /\ 0 <= stateHistoryPosition
    /\ stateHistoryPosition <= Len(stateHistory)

\* the step is a recorded mutation made while the cursor is at p > 0
MutationAtUndone ==
    /\ stateHistoryPosition > 0
    /\ fuel' = fuel - 1
    /\ call'.op \notin NavOps
    /\ Saves(trace') = 1

\* C8: a recorded mutation made at cursor position p > 0 discards the p newest
\* records, puts its own record at index 0 in front of the records formerly at
\* indices p and up, and resets the cursor to 0.
C8_DiscardFuture ==
    [][MutationAtUndone
        => /\ stateHistoryPosition' = 0
           /\ Len(stateHistory') = Len(stateHistory) - stateHistoryPosition + 1
           /\ stateHistory'[1].stateId = call'.v
           /\ stateHistory'[1].oldValue = call'.old0
           /\ stateHistory'[1].newValue = value'[call'.v]
           /\ SubSeq(stateHistory', 2, Len(stateHistory'))
                = SubSeq(stateHistory, stateHistoryPosition + 1, Len(stateHistory))]_vars

\* a mutation made two steps back in a log of three or more: two records
\* dropped, the older ones kept behind the new one
C8_Witness ==
    /\ call.op \notin NavOps
    /\ call.pos0 = 2
    /\ call.len0 >= 3
    /\ Saves(trace) = 1
    /\ Len(stateHistory) = call.len0 - 1
    /\ stateHistoryPosition = 0

\* the navigation of this step is out of range
OutOfRange ==
    \/ /\ call'.op = "goToState"
       /\ call'.arg.num
       /\ (call'.arg.h < 0 \/ call'.arg.h >= 2 * Len(stateHistory))
    \/ call'.op = "nextState" /\ stateHistoryPosition = 0
    \/ call'.op = "previousState" /\ stateHistoryPosition = Len(stateHistory) - 1
    \/ call'.op \in NavOps /\ Len(stateHistory) = 0

\* C9 as stated: goToState(t) with t < 0 or t >= length, nextState at position 0,
\* previousState at position length-1 and any navigation on an empty log report
\* an error and change neither the values, nor the log, nor the cursor.
C9_Original ==
    [][(fuel' = fuel - 1 /\ OutOfRange)
        => /\ UNCHANGED <<value, heap, stateHistory, stateHistoryPosition>>
           /\ \E i \in 1..Len(trace') : trace'[i].e = "error"]_vars

-----------------------------------------------------------------------------
(* SpecCap: one counter, updated past the capacity of the log *)

CfgCounter == [a |-> Var(Num(0), NoProv, NoProv, FALSE)]
Most == stateHistorySize + Extra
CapFuel == Most + MaxNav
CapNavs == {IntArg(1), IntArg(stateHistorySize - 1), IntArg(stateHistorySize)}

InitCap == InitWith(Scenario(CfgCounter, "web", NoItems), CapFuel)

\* update('a')(a + 1)
Increment ==
    /\ value["a"].t = "num"
    /\ value["a"].n < Most
    /\ Update("a", Raw(Num(value["a"].n + 1)))

NextCap ==
    \/ Increment
    \/ \E arg \in CapNavs : GoToState(arg)
    \/ NextState
    \/ PreviousState

SpecCap == InitCap /\ [][NextCap]_vars

\* C6: the log never holds more than stateHistorySize records, it is ordered
\* newest first (each record starts from the value the record behind it left),
\* and after stateHistorySize + Extra recorded updates without navigation it
\* holds exactly the stateHistorySize most recent ones.
C6_Capacity ==
    /\ Len(stateHistory) <= stateHistorySize
    /\ \A i \in 1..(Len(stateHistory) - 1) : stateHistory[i].oldValue = stateHistory[i + 1].newValue
    /\ (fuel = MaxNav /\ value["a"] = Num(Most))
       => stateHistory = [i \in 1..stateHistorySize |->
                             Rec("a", Num(Most - i), Num(Most - i + 1), "update", 0)]

\* every call was an update, Extra more of them than the log can hold
C6_Witness ==
    /\ fuel = MaxNav
    /\ value["a"] = Num(Most)
    /\ Len(stateHistory) = stateHistorySize
    /\ stateHistory[stateHistorySize].oldValue = Num(Extra)

-----------------------------------------------------------------------------
(* Provider adapters *)

BackendWrites == {"setDoc", "addDoc", "put", "add", "setItem"}
BackendOps == BackendWrites \cup {"deleteDoc", "deleteAll", "delete", "clear", "removeItem"}

\* trace[i] is the call of a storage adapter with the adapter's own label
OwnLabelAt(i) ==
    /\ i < Len(trace)
    /\ trace[i].e = "storage"
    /\ trace[i + 1] = Ev("context", LabelOf(storageOf(trace[i].v)))

\* C2: a storage adapter called with its own label as context (the value came
\* from that backend) returns at once: it starts no backend write.
C2_LoopBreaking ==
    \A i \in 1..Len(trace) :
        (OwnLabelAt(i) /\ i + 2 <= Len(trace)) => trace[i + 2].e \notin BackendWrites

\* a value fetched from firestore was written with the label 'firestore' and
\* handed to firestoreWrite
C2_Witness ==
    /\ call.context = "firestore"
    /\ call.v \in Ids
    /\ storageOf(call.v) = "firestoreWrite"
    /\ HasFor("value", call.v)
    /\ \E i \in 1..Len(trace) : OwnLabelAt(i) /\ trace[i].v = call.v

\* the storage path of v names a variable that holds null or undefined
Unresolved(v) ==
    /\ cfg[v].storage.kind \in {"firestore", "indexedDB"}
    /\ HasPh(cfg[v].storage.path)
    /\ readPathWithState(value, heap, cfg[v].storage.path) = NoPath

\* C10 as stated: a storage or removal adapter whose path does not resolve
\* starts no backend operation and throws nothing, and the mutation goes on to
\* its change hook and its notification.
C10_Original ==
    \A i \in 1..Len(trace) :
        (trace[i].e \in {"storage", "removal"} /\ Unresolved(trace[i].v))
        => /\ ~Has("throw")
           /\ \A j \in (i + 1)..Len(trace) :
                  trace[j].v = trace[i].v => trace[j].e \notin BackendOps
           /\ cfg[trace[i].v].onChange
              => \E j \in (i + 1)..Len(trace) : trace[j] = Ev("onChange", trace[i].v)
           /\ alertOf(trace[i].v)
              => \E j \in (i + 1)..Len(trace) : trace[j] = Ev("alert", trace[i].v)

\* the step settles a backend write or removal with a failure
AsyncFailure ==
    /\ call'.action = "fail"
    /\ call'.op \in BackendOps

\* the step is a mutation by the application whose indexedDB adapter, its path
\* resolved, finds no open database: the transaction throws inside the try
SyncFailure ==
    /\ fuel' = fuel - 1
    /\ call'.v \in Ids
    /\ cfg[call'.v].storage.kind = "indexedDB"
    /\ ~idbOpen
    /\ readPathWithState(value', heap', cfg[call'.v].storage.path) # NoPath
    /\ \E i \in 1..Len(trace') : trace'[i] \in {Ev("storage", call'.v), Ev("removal", call'.v)}

\* C11: a failed backend write or removal throws nothing into the mutation. When
\* the failure arrives later, the values, the log and the cursor stay as they
\* are; when it happens inside the adapter call, it is logged and the mutation
\* keeps its value and its one record.
C11_BestEffort ==
    [][/\ AsyncFailure
          => /\ UNCHANGED <<value, heap, stateHistory, stateHistoryPosition>>
             /\ \A i \in 1..Len(trace') : trace'[i].e # "throw"
       /\ SyncFailure
          => /\ \A i \in 1..Len(trace') : trace'[i].e # "throw"
             /\ \E i \in 1..Len(trace') : trace'[i] = Ev("error", call'.v)
             /\ Saves(trace') = 1
             /\ stateHistory'[1].stateId = call'.v
             /\ stateHistory'[1].oldValue = call'.old0
             /\ stateHistory'[1].newValue = value'[call'.v]]_vars

\* setDoc or put failed after update(V)(1): V still holds 1 and the newest
\* record is still the one of that update
C11_Witness ==
    /\ call.action = "fail"
    /\ call.op \in {"setDoc", "put"}
    /\ Has("error")
    /\ value[call.v] = Num(1)
    /\ Len(stateHistory) > 0
    /\ stateHistory[1].stateId = call.v
    /\ stateHistory[1].newValue = Num(1)

\* C20: goToState, nextState and previousState leave the records of the log as
\* they were: the writes they issue carry the context 'stateHistory', which
\* neither appends a record nor drops one.
C20_ReplayNotRecorded ==
    [][call'.op \in NavOps => stateHistory' = stateHistory]_vars

\* previousState has just undone the newest of two records: the variable holds
\* the record's old value again and both records are still there
C20_Witness ==
    /\ call.op = "previousState"
    /\ call.pos0 = 0
    /\ call.len0 = 2
    /\ stateHistoryPosition = 1
    /\ Len(stateHistory) = 2
    /\ HasFor("value", stateHistory[1].stateId)
    /\ value[stateHistory[1].stateId] = stateHistory[1].oldValue
    /\ stateHistory[1].oldValue # stateHistory[1].newValue

\* the step is update(V, elementId)(X) on an array that holds an element with
\* that id
UpdatesElement ==
    /\ fuel' = fuel - 1
    /\ call'.op = "update"
    /\ call'.action = "updateArray"
    /\ call'.v \in Ids
    /\ IsArr(heap, value[call'.v])
    /\ findIndex(heap[value[call'.v].n].els, call'.documentId) # 0

\* C23: update(V, elementId)(X) puts X where the first element with that id was:
\* V is the same array, as long as before, every other element is where and
\* what it was; then the storage adapter is called with the context 'app' and,
\* for firestore, writes the document '<path>/<elementId>'.
C23_UpdateArray ==
    [][UpdatesElement =>
          LET v == call'.v
              els == heap[value[v].n].els
              idx == findIndex(els, call'.documentId)
          IN  /\ value'[v] = value[v]
              /\ IsArr(heap', value'[v])
              /\ Len(heap'[value[v].n].els) = Len(els)
              /\ heap'[value[v].n].els[idx] = call'.x
              /\ \A j \in (1..Len(els)) \ {idx} : heap'[value[v].n].els[j] = els[j]
              /\ storageOf(v) # "none" =>
                     \E i \in 1..(Len(trace') - 1) :
                         trace'[i] = Ev("storage", v) /\ trace'[i + 1] = Ev("context", "app")
              /\ storageOf(v) = "firestoreWrite" =>
                     \E j \in 1..Len(pend') :
                         /\ pend'[j].k = "setDoc"
                         /\ pend'[j].v = v
                         /\ pend'[j].path = FinalPath(readPathWithState(value', heap', cfg[v].storage.path),
                                                      call'.documentId)]_vars

\* two calls were made: an add behind the fetched element 1, then
\* update('a', 1)(X), which replaced the fetched element and left the added one
C23_Witness ==
    /\ fuel = MaxCalls - 2
    /\ call.op = "update"
    /\ call.action = "updateArray"
    /\ call.v = "a"
    /\ call.documentId = 1
    /\ IsArr(heap, value["a"])
    /\ heap[value["a"].n].els = <<call.x, Elem(0, 1)>>
    /\ HasFor("value", "a")
    /\ HasFor("setDoc", "a")

\* the place of a step in the order the claim gives, 0 for what is no step
StepOf(e) ==
    CASE e = "value" -> 1
      [] e = "saveState" -> 2
      [] e \in {"storage", "removal"} -> 3
      [] e = "onChange" -> 4
      [] e = "alert" -> 5
      [] OTHER -> 0

\* C24: in what one handler does to a variable, the value is set first, then
\* the record is saved, then the storage or removal adapter is called, then the
\* change hook, then the change is broadcast: no step comes before an earlier
\* one, and every step from the record on has the value and the record before it.
C24_StepOrder ==
    \A j \in 1..Len(trace) :
        StepOf(trace[j].e) > 0 =>
            /\ \A i \in 1..(j - 1) :
                   (trace[i].v = trace[j].v /\ StepOf(trace[i].e) > 0)
                   => StepOf(trace[i].e) <= StepOf(trace[j].e)
            /\ StepOf(trace[j].e) > 1 =>
                   \E i \in 1..(j - 1) : trace[i] = Ev("value", trace[j].v)
            /\ StepOf(trace[j].e) > 2 =>
                   \E i \in 1..(j - 1) : trace[i] = Ev("saveState", trace[j].v)

\* an update of b went through value, record, storage adapter and change hook
C24_Witness ==
    /\ call.op = "update"
    /\ call.v = "b"
    /\ \E i, j, k, l \in 1..Len(trace) :
           /\ i < j /\ j < k /\ k < l
           /\ trace[i] = Ev("value", "b")
           /\ trace[j] = Ev("saveState", "b")
           /\ trace[k] = Ev("storage", "b")
           /\ trace[l] = Ev("onChange", "b")

\* what x is in the heap h: the elements of an array, x itself otherwise
Content(h, x) == IF IsRef(x) THEN h[x.n] ELSE x

\* the step is a handler that saved one record, for the variable it was called on
SavesOne ==
    /\ call'.v \in Ids
    /\ Saves(trace') = 1
    /\ \E i \in 1..Len(trace') : trace'[i] = Ev("saveState", call'.v)

\* C25 as stated: the record a mutation saves holds as oldValue what the
\* variable held right before the mutation and as newValue what it holds right
\* after it; the record of an add has the array without the added element as
\* oldValue.
C25_Original ==
    [][SavesOne =>
          /\ stateHistory'[1].stateId = call'.v
          /\ Content(heap', stateHistory'[1].oldValue) = Content(heap, value[call'.v])
          /\ Content(heap', stateHistory'[1].newValue) = Content(heap', value'[call'.v])]_vars

\* x is the default the configuration declares for v
IsDefault(v, x) == IF cfg[v].dflt = NewArr THEN IsRef(x) ELSE x = cfg[v].dflt

-----------------------------------------------------------------------------
(* SpecDep: a variable whose value is embedded in the paths of another one, *)
(* given the values a path can embed                                        *)

ScenariosDep ==
    {Scenario(CfgFirestore, "web", NoItems),
     Scenario(CfgIndexedDB, "web", NoItems)}

Embedded == {Num(0), Num(1), EmptyStr}

InitDep == \E sc \in ScenariosDep : InitWith(sc, MaxCalls)

NextDep ==
    \/ \E v \in Ids, x \in Embedded : Update(v, Raw(x))
    \/ \E v \in Ids : Remove(v, 0)
    \/ \E i \in 1..Len(pend), r \in Results, els \in FetchedEls : Complete(i, r, els)

SpecDep == InitDep /\ [][NextDep]_vars

\* d is fetched from a path that embeds the value of x
DependsOn(d, x) ==
    /\ cfg[d].source.kind \in {"firestore", "indexedDB"}
    /\ readStateId(cfg[d].source.path) = x

\* the path d is fetched from, as the backend of d is handed it
SourcePath(d) ==
    IF cfg[d].source.kind = "indexedDB"
    THEN NonEmptySegs(readPathWithState(value, heap, cfg[d].source.path))
    ELSE readPathWithState(value, heap, cfg[d].source.path)

\* the last handler fetched d again from its path as it resolves now, or tried
\* to and logged the failure of the backend
Refetched(d) ==
    \/ HasFor("error", d)
    \/ /\ \E i \in 1..Len(trace) : trace[i].v = d /\ trace[i].e \in Reads
       /\ \E j \in 1..Len(pend) :
              pend[j].v = d /\ pend[j].k \in Reads /\ pend[j].path = SourcePath(d)

\* d listens to the changes of x (from setupState on with firestore, from the
\* opening of the database on with indexedDB)
Listens(d, x) == \E i \in 1..Len(listeners) : listeners[i].v = d /\ listeners[i].on = x

\* C16 as stated: when a recorded mutation other than remove changes a variable
\* that the source path of d embeds, d is fetched again, from the path resolved
\* with the new value.
C16_Original ==
    \A d \in Ids :
        (/\ call.v \in Ids
         /\ call.op # "remove"
         /\ HasFor("saveState", call.v)
         /\ DependsOn(d, call.v)
         /\ Listens(d, call.v)
         /\ NotNullish(value[call.v]))
        => Refetched(d)

\* the last handler was a mutation of call.v that was recorded and ran to its end
RecordedMutation ==
    /\ call.v \in Ids
    /\ HasFor("saveState", call.v)
    /\ ~HasFor("throw", call.v)

\* C17 as stated: a recorded mutation broadcasts the change of its variable
\* exactly when the variable alerts its dependents and the action is not remove.
C17_Original ==
    RecordedMutation =>
        (HasFor("alert", call.v) <=> (alertOf(call.v) /\ call.op # "remove"))

\* the requests that address a single record, and those that address a collection
RecordOps == {"getDoc", "setDoc", "deleteDoc", "get", "put", "delete"}
CollectionOps == {"getDocs", "addDoc", "deleteAll", "getAll", "add", "clear"}

\* C19 as stated: the firestore and indexedDB adapters address a single record
\* when the resolved path has an even number of non-empty segments and a
\* collection when it has an odd number.
C19_Original ==
    \A j \in 1..Len(pend) :
        pend[j].k \in RecordOps \cup CollectionOps
        => (pend[j].k \in RecordOps <=> Len(NonEmptySegs(pend[j].path)) % 2 = 0)

-----------------------------------------------------------------------------
(* SpecPath: readPathWithState on the paths of PathsRead, whatever the      *)
(* variables hold                                                           *)

PathsRead ==
    {<<EmptySeg>>,
     <<Lit("events")>>,
     <<Lit("events"), Lit("e1")>>,
     <<At("@events"), Ph("a")>>,
     <<Lit("events"), Ph("a"), Lit("guests")>>,
     <<Ph("b"), Lit("events")>>,
     <<Lit("events"), Ph("c")>>,
     <<Lit("events"), Ph("a"), Ph("b")>>}

Held == {Undef, Null, NaNVal, EmptyStr, Num(0), Num(1)}

\* readPathWithState(path)
ReadPath(path) ==
    /\ resolved' = [path |-> path, result |-> readPathWithState(value, heap, path)]
    /\ UNCHANGED <<cfg, os, value, heap, stateHistory, stateHistoryPosition, idbOpen,
                   listeners, pend, trace, call, snap, fuel, schema, remote>>

InitPath == InitWith(Scenario(CfgPlain, "web", NoItems), MaxCalls)

NextPath ==
    \/ \E v \in Ids, x \in Held : Update(v, Raw(x))
    \/ \E path \in PathsRead : ReadPath(path)

SpecPath == InitPath /\ [][NextPath]_vars

\* what value.toString() is for the values of Held that have one
Text(x) ==
    CASE x = Num(0) -> Lit("0")
      [] x = Num(1) -> Lit("1")
      [] x = NaNVal -> Lit("NaN")
      [] x = EmptyStr -> EmptySeg

\* r is what the claim says readPathWithState(path) returns in this state
Resolves(path, r) ==
    IF ~HasPh(path) THEN r = path
    ELSE LET i == FirstPh(path)
             x == IF path[i].id \in Ids THEN value[path[i].id] ELSE Undef
         IN  IF x \in {Undef, Null} THEN r = NoPath
             ELSE /\ Len(r) = Len(path)
                  /\ r[i] = Text(x)
                  /\ \A j \in (1..Len(path)) \ {i} : r[j] = path[j]

-----------------------------------------------------------------------------
(* SpecSetup: configurations whose source or storage object names more than *)
(* one kind of provider                                                     *)

\* the provider of the first kind of order that the object names, none if it
\* names none of them
FirstNamed(named, order) ==
    IF \E i \in 1..Len(order) : \E p \in named : p.kind = order[i]
    THEN LET i == CHOOSE i \in 1..Len(order) :
                      /\ \E p \in named : p.kind = order[i]
                      /\ \A j \in 1..(i - 1) : \A p \in named : p.kind # order[j]
         IN  CHOOSE p \in named : p.kind = order[i]
    ELSE NoProv

\* step 2 of setupState: if (storage.firestore) ... else if (storage.indexedDB) ...
wiredStorage(named) == FirstNamed(named, <<"firestore", "indexedDB", "local", "function">>)

\* step 3 of setupState: if (source.url) ... else if (source.firestore) ...
wiredSource(named) == FirstNamed(named, <<"url", "firestore", "indexedDB", "local", "function">>)

\* a variable as the configuration declares it: sources and storages are the
\* providers its source and storage objects name
Declared(dflt, sources, storages, onChange) ==
    [dflt |-> dflt, source |-> wiredSource(sources), storage |-> wiredStorage(storages),
     onChange |-> onChange, sources |-> sources, storages |-> storages]

\* a names two kinds of storage, b two kinds of source
CfgTwoKinds ==
    [a |-> Declared(Num(0), {}, {P("local", <<Lit("a")>>), P("firestore", <<Lit("events"), Lit("e1")>>)}, FALSE),
     b |-> Declared(Num(0), {P("local", <<Lit("b")>>), P("firestore", <<Lit("events"), Lit("e2")>>)}, {}, FALSE)]

\* a names one kind of each, b two kinds of each
CfgOneAndTwo ==
    [a |-> Declared(Num(0), {P("local", <<Lit("a")>>)}, {P("local", <<Lit("a")>>)}, FALSE),
     b |-> Declared(Num(0), {P("indexedDB", <<Lit("events"), Lit("e2")>>), P("local", <<Lit("b")>>)},
                    {P("indexedDB", <<Lit("events"), Lit("e2")>>), P("local", <<Lit("b")>>)}, FALSE)]

ScenariosSetup ==
    {Scenario(CfgTwoKinds, "web", NoItems),
     Scenario(CfgOneAndTwo, "web", [a |-> Num(1), b |-> Num(1)])}

InitSetup == \E sc \in ScenariosSetup : InitWith(sc, MaxCalls)

NextSetup ==
    \/ \E v \in Ids, x \in Embedded : Update(v, Raw(x))
    \/ \E v \in Ids : Remove(v, 0)
    \/ \E i \in 1..Len(pend), r \in Results, els \in FetchedEls : Complete(i, r, els)

SpecSetup == InitSetup /\ [][NextSetup]_vars

\* C21 as stated: a variable that names two kinds of source (of storage) has no
\* source (no storage and no removal) provider wired: none is ever invoked.
C21_Original ==
    \A v \in Ids :
        /\ Cardinality(cfg[v].sources) > 1 => ~HasFor("source", v)
        /\ Cardinality(cfg[v].storages) > 1 => (~HasFor("storage", v) /\ ~HasFor("removal", v))

-----------------------------------------------------------------------------
(* SpecSchema: the page is loaded again and again, with configurations that *)
(* require different indexedDB collections                                  *)

\* a is stored to 'events/e1'
CfgEvents ==
    [a |-> Var(Num(0), NoProv, P("indexedDB", <<Lit("events"), Lit("e1")>>), FALSE),
     b |-> Var(Num(0), NoProv, NoProv, FALSE)]

\* a is stored to 'events/e1', b is read from and stored to 'users/u1'
CfgEventsUsers ==
    [a |-> Var(Num(0), NoProv, P("indexedDB", <<Lit("events"), Lit("e1")>>), FALSE),
     b |-> Var(Num(0), P("indexedDB", <<Lit("users"), Lit("u1")>>),
               P("indexedDB", <<Lit("users"), Lit("u1")>>), FALSE)]

ScenariosSchema ==
    {Scenario(CfgPlain, "web", NoItems),
     Scenario(CfgEvents, "web", NoItems),
     Scenario(CfgEventsUsers, "web", NoItems)}

MaxLoads == 3

\* the page is loaded with the configuration of sc: setupState runs on a new
\* ONEJS object, with the localStorage and the database the last page left
Load(sc) ==
    /\ fuel > 0
    /\ cfg' = sc.cfg
    /\ os' = sc.os
    /\ \E S \in {setupState(sc.items)'} :
           /\ value' = S.value
           /\ heap' = S.heap
           /\ stateHistory' = S.hist
           /\ stateHistoryPosition' = S.pos
           /\ snap' = S.snap
           /\ pend' = S.pend
           /\ trace' = S.trace
           /\ listeners' = S.listeners
           /\ idbOpen' = S.idbOpen
    /\ \E left \in {schema} : schema' = setupVersion(left)'
    /\ call' = CallAt("setupState", "", Undef, 0, "", "", NoArg, 0, 0, Undef)
    /\ fuel' = fuel - 1
    /\ UNCHANGED <<resolved, remote>>

InitSchema == \E sc \in ScenariosSchema : InitWith(sc, MaxLoads)

NextSchema ==
    \/ \E sc \in ScenariosSchema : Load(sc)
    \/ \E v \in Ids : Update(v, Raw(Num(1)))
    \/ \E i \in 1..Len(pend), r \in Results, els \in FetchedEls : Complete(i, r, els)

SpecSchema == InitSchema /\ [][NextSchema]_vars

\* the step is a setupState that requires a collection the persisted list lacks
Grows ==
    /\ call'.op = "setupState"
    /\ fuel' = fuel - 1
    /\ schema.collections # {}
    /\ ~(indexedDBCollections' \subseteq schema.collections)

\* C22 as stated: when the collections a setup requires grow beyond the persisted
\* list, the persisted version is increased, the persisted list becomes the
\* required one, and the database is opened with a version greater than every
\* version it was opened with before.
C22_Original ==
    [][Grows =>
          /\ schema'.version > schema.version
          /\ schema'.collections = indexedDBCollections'
          /\ Len(schema'.opened) = Len(schema.opened) + 1
          /\ \A i \in 1..Len(schema.opened) :
                 schema'.opened[Len(schema'.opened)] > schema.opened[i]]_vars

-----------------------------------------------------------------------------
(* SpecNav: history navigation over variables that have storage, a change   *)
(* hook, a source and dependents                                            *)

ScenariosNav ==
    {Scenario(CfgFirestore, "web", NoItems),
     Scenario(CfgIndexedDB, "web", NoItems),
     Scenario(CfgCollection, "web", NoItems)}

InitNav == \E sc \in ScenariosNav : InitWith(sc, MaxCalls + 1)

NextNav ==
    \/ \E v \in Ids : Update(v, Raw(Num(1)))
    \/ \E v \in Ids : Remove(v, 0)
    \/ \E arg \in {IntArg(0), IntArg(1)} : GoToState(arg)
    \/ NextState
    \/ PreviousState
    \/ \E i \in 1..Len(pend), r \in Results, els \in FetchedEls : Complete(i, r, els)

SpecNav == InitNav /\ [][NextNav]_vars

\* C29: goToState, nextState and previousState only assign values (and log an
\* error for a position out of range): they call no storage or removal
\* adapter, no source, no change hook, dispatch no change event, start no
\* request and register no listener.
C29_NavigationInward ==
    [][call'.op \in NavOps =>
          /\ \A i \in 1..Len(trace') : trace'[i].e \in {"value", "error"}
          /\ pend' = pend
          /\ listeners' = listeners]_vars

\* previousState has undone an update of b, which has a firestore document as
\* storage and source and a change hook
C29_Witness ==
    /\ call.op = "previousState"
    /\ stateHistoryPosition = 1
    /\ trace = <<Ev("value", "b")>>
    /\ storageOf("b") = "firestoreWrite"
    /\ cfg["b"].onChange
    /\ value["b"] = stateHistory[1].oldValue
    /\ stateHistory[1].newValue = Num(1)

-----------------------------------------------------------------------------
(* SpecRemote: a backend that holds documents.  b is the document           *)
(* 'events/<a>'; a fetch delivers what the backend holds when it is         *)
(* answered, a write changes the backend when it lands.                     *)

\* b is read from and stored to the firestore document 'events/<a>', a is 1
CfgFirestoreRecord ==
    [a |-> Var(Num(1), NoProv, NoProv, FALSE),
     b |-> Var(Undef, P("firestore", AtEventsOfA), P("firestore", EventsOfA), FALSE)]

\* b is read from the indexedDB document 'events/<a>', a is 1
CfgIndexedDBRecord ==
    [a |-> Var(Num(1), NoProv, NoProv, FALSE),
     b |-> Var(Undef, P("indexedDB", AtEventsOfA), NoProv, FALSE)]

\* the object the application stores in b
Stored == Elem(0, 3)

\* the n of the document 'events/<n>' a request is for
RecordOf(path) == CHOOSE n \in 0..9 : NumStr(n) = path[Len(path)].id

\* getDoc / get is answered with the document the backend holds, and the
\* callback writes it
Fetched(i) ==
    /\ i \in 1..Len(pend)
    /\ pend[i].k \in {"getDoc", "get"}
    /\ RecordOf(pend[i].path) \in RecordIds
    /\ Commit(write(RemoveIo(Cur, i), pend[i].v, remote[RecordOf(pend[i].path)], pend[i].be, "update", 0),
              Call(pend[i].k, pend[i].v, Undef, 0, pend[i].be, "ok"), fuel)

\* setDoc lands: the backend holds what the application stored
Lands(i) ==
    /\ i \in 1..Len(pend)
    /\ pend[i].k = "setDoc"
    /\ RecordOf(pend[i].path) \in RecordIds
    /\ Apply(complete(RemoveIo(Cur, i), pend[i], "ok", <<>>),
             Call(pend[i].k, pend[i].v, Undef, 0, pend[i].be, "ok"), fuel)
    /\ remote' = [remote EXCEPT ![RecordOf(pend[i].path)] = Stored]

\* the database is open
Opens(i) ==
    /\ i \in 1..Len(pend)
    /\ pend[i].k = "open"
    /\ Complete(i, "ok", <<>>)

InitRemote ==
    \/ InitWith(Scenario(CfgFirestoreRecord, "web", NoItems), MaxCalls)
    \/ InitWith(Scenario(CfgIndexedDBRecord, "web", NoItems), MaxCalls)

NextRemote ==
    \/ \E n \in RecordIds : Update("a", Raw(Num(n)))
    \/ Update("b", Raw(Stored))
    \/ \E i \in 1..Len(pend) : Fetched(i)
    \/ \E i \in 1..Len(pend) : Lands(i)
    \/ \E i \in 1..Len(pend) : Opens(i)

SpecRemote == InitRemote /\ [][NextRemote]_vars

\* the application has stored something in b
StoredB == \E i \in 1..Len(stateHistory) :
               stateHistory[i].stateId = "b" /\ stateHistory[i].newValue = Stored

\* C27 as stated: once every fetch has been answered, b holds the document of
\* the a of now, whatever the order of the answers (b is only ever fetched here).
C27_Original ==
    (pend = <<>> /\ ~StoredB /\ value["b"] # Undef)
    => value["b"] = remote[value["a"].n]

\* C28 as stated: with b read from and stored to one and the same document (a
\* never changes), once all requests have been answered b holds what the
\* backend holds, whenever the application's update came.
C28_Original ==
    (/\ pend = <<>>
     /\ cfg["b"].storage.kind = "firestore"
     /\ StoredB
     /\ \A i \in 1..Len(stateHistory) : stateHistory[i].stateId # "a")
    => value["b"] = remote[value["a"].n]

-----------------------------------------------------------------------------
(* SpecAdd: add on a collection that is fetched from and stored to the same *)
(* firestore path, against a backend that only this application writes to   *)

\* a is the firestore collection '@users/<b>/events', fetched and stored
EventsOfUser == <<At("@users"), Ph("b"), Lit("events")>>
CfgUserEvents ==
    [a |-> Var(NewArr, P("firestore", EventsOfUser), P("firestore", EventsOfUser), FALSE),
     b |-> Var(Num(1), NoProv, NoProv, FALSE)]

InitAdd == InitWith(Scenario(CfgUserEvents, "web", NoItems), MaxCalls)

\* the backend collection: one document per push that has settled, with the
\* ids the backend assigned in that order
Pushes == {"addDoc", "add"}
Landed == (MaxCalls - fuel) - Cardinality({i \in 1..Len(pend) : pend[i].k \in Pushes})
Backend == [i \in 1..Landed |-> Elem(i, 1)]

\* a request settles: a fetch delivers what the collection holds by then
Settle(i) == Complete(i, "ok", Backend)

NextAdd ==
    \/ \E e \in Elems : Add("a", e)
    \/ \E i \in 1..Len(pend) : Settle(i)

SpecAdd == InitAdd /\ [][NextAdd]_vars

\* the places of event e for variable v in the trace
At_(e, v) == {i \in 1..Len(trace) : trace[i] = Ev(e, v)}

\* C15 as stated: add(V)(e) starts the push, then calls V's source provider
\* again, and once every push and fetch has settled, in whatever order, V's
\* sequence holds a record with its backend id for every element added.
C15_Original ==
    /\ (call.op = "add" /\ call.v \in Ids)
       => \E i \in At_("storage", call.v), j \in At_("addDoc", call.v),
             k \in At_("source", call.v), l \in At_("getDocs", call.v) :
                i < j /\ j < k /\ k < l
    /\ (fuel < MaxCalls /\ pend = <<>>)
       => /\ IsArr(heap, value["a"])
          /\ \A n \in 1..(MaxCalls - fuel) :
                 \E i \in 1..Len(heap[value["a"].n].els) : heap[value["a"].n].els[i] = Elem(n, 1)

-----------------------------------------------------------------------------
(* SpecLive: every request that was started is answered *)

\* a is read from the firestore document that a itself names
CfgSelf == [a |-> Var(Num(1), P("firestore", <<At("@events"), Ph("a")>>), NoProv, FALSE)]

\* the application mutates in the configurations that subscribe to nothing; the
\* subscribed collection is followed from its first snapshot on
InitLive ==
    \/ InitWith(Scenario(CfgFirestore, "web", NoItems), MaxCalls)
    \/ InitWith(Scenario(CfgSelf, "web", NoItems), MaxCalls - 1)
    \/ InitWith(Scenario(CfgCollection, "web", NoItems), MaxCalls - 2)

CompleteHead == \E r \in Results, els \in FetchedEls : Complete(1, r, els)

NextLive ==
    \/ \E v \in Ids, x \in Scalars : Update(v, Raw(x))
    \/ \E e \in Elems : Add("a", e)
    \/ \E v \in Ids : Remove(v, 0)
    \/ \E i \in 1..Len(pend), r \in Results, els \in FetchedEls : Complete(i, r, els)

SpecLive == InitLive /\ [][NextLive]_vars /\ WF_vars(CompleteHead)

\* the variable whose change makes d fetch again, "" when there is none
Parent(d) ==
    IF d \in Ids /\ cfg[d].source.kind \in {"firestore", "indexedDB"} /\ HasAt(cfg[d].source.path)
    THEN readStateId(cfg[d].source.path)
    ELSE ""

\* no variable is, through the placeholders of source paths, its own ancestor
Acyclic ==
    \A v \in Ids : /\ Parent(v) # v
                   /\ Parent(Parent(v)) # v
                   /\ Parent(Parent(Parent(v))) # v

Quiescent == pend = <<>>

\* C3 as stated: whatever the configuration, once the application stops
\* mutating and every started request is answered, no provider call remains
\* pending and none is started again.
C3_Original == <>[]Quiescent

\* C3: in a configuration whose source-path placeholders refer to no cycle of
\* variables, once the application stops mutating and every started request is
\* answered, no provider call remains pending and none is started again.
C3_Terminates == Acyclic => <>[]Quiescent

\* a collection fetched from firestore was stored with the label 'firestore',
\* its storage adapter was called, and nothing is pending any more
C3_Witness ==
    /\ Acyclic
    /\ Quiescent
    /\ fuel = 0
    /\ call.context = "firestore"
    /\ call.v \in Ids
    /\ storageOf(call.v) = "firestoreWrite"
    /\ HasFor("value", call.v)
    /\ HasFor("storage", call.v)

====
